---- MODULE Spec2Model ----
(***************************************************************************)
(* Model of AlgorithmService (later draft, src/unnamed/part_000:1-407):    *)
(* searchCombinations, verifiesPriorities, weightAlgorithm, quicksort and  *)
(* the orchestrator schedulerAlgorithm.  Array indices are 0-based as in   *)
(* the source; a TLA+ sequence s holds JS element k at s[k + 1].           *)
(*                                                                         *)
(* Spec            a call of schedulerAlgorithm, one action per step       *)
(* SpecWeight      step 2 alone, on every priorities list of a combination *)
(* SpecSort        a call of the public quicksort, one action per          *)
(*                 iteration of its work-list loop                         *)
(* SpecEnumeration searchCombinations on arrays with identity, one action  *)
(*                 per step of a call                                      *)
(***************************************************************************)
EXTENDS Integers, Sequences, FiniteSets, TLC

VARIABLES
    subjects,           \* argument: the catalog, ISubject[]
    selectedSubjects,   \* argument: ISubjectSelection[]
    priorities,         \* argument: IPriority[]
    sortArg,            \* argument: the sort selector as passed (or Omitted)
    pc,                 \* position inside schedulerAlgorithm
    chosenSubjects,     \* local: the resolved subjects
    combinations,       \* local: the list built, scored, sorted and returned
    verified,           \* every call of verifier(combination), in call order
    sorting,            \* a call of the public quicksort: arguments, work-list
    enumeration         \* a run of searchCombinations on arrays with identity

vars == << subjects, selectedSubjects, priorities, sortArg, pc,
           chosenSubjects, combinations, verified, sorting, enumeration >>

-----------------------------------------------------------------------------
(* Bounds of the input domain *)

MaxCommissions == 2     \* commissions per catalog subject
MaxSelected == 2        \* length of selectedSubjects
MaxPriorities == 2      \* length of priorities
MaxWeighted == 3        \* length of priorities in the calls of the scorer alone
MaxPriorityWeight == 4  \* weight of a priority in those calls
MaxSelectionWeight == 3 \* weight of a selection in those calls
MaxLength == 4          \* length of the arrays quicksort is called on
MaxKey == 2             \* largest key of an element of those arrays

-----------------------------------------------------------------------------
(* JavaScript values *)

Undefined == "undefined"
Omitted == "omitted"

Min(a, b) == IF a < b THEN a ELSE b
Max(a, b) == IF a > b THEN a ELSE b

\* Array.prototype.concat / push on sequences
Push(list, e) == Append(list, e)

\* Array.prototype.pop: the element removed and the array left
\* a pop that hands out the first element
PopValueFirst(list) == list[1]

PopValue(list) == list[Len(list)]
PopRest(list) == SubSeq(list, 1, Len(list) - 1)

\* Array.prototype.slice(): a fresh copy
Slice(list) == list

\* obj.hasOwnProperty(name); an object carries the set of its own properties
HasOwnProperty(obj, name) == name \in obj.ownProps

\* a value that may be undefined: None is undefined, Some(x) is x
None == << >>
Some(x) == << x >>
IsDefined(opt) == Len(opt) > 0
ValueOf(opt) == opt[1]

\* truthiness of a number
Truthy(n) == n # 0

-----------------------------------------------------------------------------
(* algorithm-interface: Weekday and PriorityTypes *)

MONDAY == 1
FRIDAY == 5
ANY == 7
Weekdays == MONDAY..FRIDAY

PriorityTypes == { "SUPERPOSITION", "COMMISSION", "PROFESSOR", "FREEDAY",
                   "BUSYTIME", "LOCATION", "TRAVEL" }

(* algorithm-object: Timeblock, Priority, CombinationSubject, Combination *)

Timeblock(day, start, end, building) ==
    [day |-> day, start |-> start, end |-> end, building |-> building]

\* Timeblock.overlaps: 0 on different days, else the length of the
\* intersection of the two time ranges
Overlaps(a, b) ==
    IF a.day # b.day THEN 0
    ELSE Max(0, Min(a.end, b.end) - Max(a.start, b.start))

IsExclusive(priority) == priority.exclusive

HasSubjectRelated(priority) == priority.relatedSubjectCode # Undefined

NewCombinationSubject(name, code, professors, commissionName, commissionTimes) ==
    [name |-> name, code |-> code, professors |-> professors,
     commissionName |-> commissionName, commissionTimes |-> commissionTimes]

\* CombinationSubject.hasProfessors: the professors were given
HasProfessors(subject) == IsDefined(subject.professors)

\* new Combination(): no subjects, no priorities, weight 0
NewCombination == [subjects |-> << >>, priorities |-> << >>, weight |-> 0]

\* Combination.copy: a deep copy (values have no identity here)
CombinationCopy(combination) ==
    [subjects |-> combination.subjects,
     priorities |-> combination.priorities,
     weight |-> combination.weight]

RECURSIVE Flatten(_)
Flatten(lists) ==
    IF Len(lists) = 0 THEN << >> ELSE Head(lists) \o Flatten(Tail(lists))

\* every timeblock of the combination, subject by subject
AllTimeblocks(combination) ==
    Flatten([k \in 1..Len(combination.subjects) |->
                combination.subjects[k].commissionTimes])

RECURSIVE SelectSeqBy(_, _)
\* the elements of a list of timeblocks that fall on a day, in order
SelectSeqBy(list, day) ==
    IF Len(list) = 0 THEN << >>
    ELSE IF Head(list).day = day
         THEN << Head(list) >> \o SelectSeqBy(Tail(list), day)
         ELSE SelectSeqBy(Tail(list), day)

\* Combination.getTimeblocksByDay
GetTimeblocksByDay(combination, day) ==
    SelectSeqBy(AllTimeblocks(combination), day)

RECURSIVE FreeDaysFrom(_, _)
FreeDaysFrom(combination, day) ==
    IF day > FRIDAY THEN << >>
    ELSE IF Len(GetTimeblocksByDay(combination, day)) = 0
         THEN << day >> \o FreeDaysFrom(combination, day + 1)
         ELSE FreeDaysFrom(combination, day + 1)

\* Combination.getFreeDays: the weekdays without any timeblock
GetFreeDays(combination) == FreeDaysFrom(combination, MONDAY)

-----------------------------------------------------------------------------
(* verifiesPriorities.  Each case of the switch yields what it does with    *)
(* the priority: "push" (its index is appended), "skip" (nothing) or        *)
(* "reject" (return false).                                                 *)

\* list.find(subject => subject.code === code): found, and the first match
HasCode(list, code) == \E k \in 1..Len(list) : list[k].code = code
FindByCode(list, code) ==
    list[CHOOSE k \in 1..Len(list) :
            /\ list[k].code = code
            /\ \A m \in 1..(k - 1) : list[m].code # code]

\* some pair of timeblocks of two different subjects overlaps by more than value
FailedSuperposition(combination, value) ==
    \E i \in 1..Len(combination.subjects) :
      \E j \in (i + 1)..Len(combination.subjects) :
        \E a \in 1..Len(combination.subjects[i].commissionTimes) :
          \E b \in 1..Len(combination.subjects[j].commissionTimes) :
            Overlaps(combination.subjects[i].commissionTimes[a],
                     combination.subjects[j].commissionTimes[b]) > value

\* the SUPERPOSITION case that appends the index unless it returns false
VerifySuperpositionAlways(combination, currentPriority) ==
    IF FailedSuperposition(combination, currentPriority.value)
           /\ IsExclusive(currentPriority)
    THEN "reject" ELSE "push"

VerifySuperposition(combination, currentPriority) ==
    IF FailedSuperposition(combination, currentPriority.value)
    THEN IF IsExclusive(currentPriority) THEN "reject" ELSE "skip"
    ELSE "push"

VerifyCommission(combination, currentPriority) ==
    IF HasCode(combination.subjects, currentPriority.relatedSubjectCode)
    THEN LET prioritySubject ==
                 FindByCode(combination.subjects, currentPriority.relatedSubjectCode)
         IN IF prioritySubject.commissionName = currentPriority.value
            THEN "push"
            ELSE IF IsExclusive(currentPriority) THEN "reject" ELSE "skip"
    ELSE IF IsExclusive(currentPriority) THEN "reject" ELSE "skip"

VerifyProfessor(combination, currentPriority) ==
    LET found == HasCode(combination.subjects, currentPriority.relatedSubjectCode)
        professorSubject ==
            FindByCode(combination.subjects, currentPriority.relatedSubjectCode)
        hasPriorityTeacher ==
            /\ found
            /\ HasProfessors(professorSubject)
            /\ \E k \in 1..Len(ValueOf(professorSubject.professors)) :
                  ValueOf(professorSubject.professors)[k] = currentPriority.value
    IN IF hasPriorityTeacher THEN "push"
       ELSE IF IsExclusive(currentPriority) THEN "reject" ELSE "skip"

VerifyFreeday(combination, currentPriority) ==
    LET freeDays == GetFreeDays(combination)
        \* freeDays.find(element => element === value): truthy when found and nonzero
        freeDay == /\ \E k \in 1..Len(freeDays) : freeDays[k] = currentPriority.value
                   /\ Truthy(currentPriority.value)
    IN IF Len(freeDays) > 0
       THEN IF currentPriority.value = ANY \/ freeDay THEN "push" ELSE "skip"
       ELSE IF IsExclusive(currentPriority) THEN "reject" ELSE "skip"

FailedBusyTime(combination, busyTimes) ==
    \E i \in 1..Len(combination.subjects) :
      \E a \in 1..Len(combination.subjects[i].commissionTimes) :
        \E b \in 1..Len(busyTimes) :
          Overlaps(combination.subjects[i].commissionTimes[a], busyTimes[b]) > 0

VerifyBusytime(combination, currentPriority) ==
    IF FailedBusyTime(combination, currentPriority.value)
    THEN IF IsExclusive(currentPriority) THEN "reject" ELSE "skip"
    ELSE "push"

\* some weekday holds a timeblock in another building than its first timeblock
FailedLocation(combination) ==
    \E day \in MONDAY..FRIDAY :
      LET timeblocks == GetTimeblocksByDay(combination, day)
      IN /\ Len(timeblocks) > 0
         /\ \E timeblockIndex \in 2..Len(timeblocks) :
               timeblocks[1].building # timeblocks[timeblockIndex].building

VerifyLocation(combination, currentPriority) ==
    IF FailedLocation(combination)
    THEN IF IsExclusive(currentPriority) THEN "reject" ELSE "skip"
    ELSE "push"

GetTravelTime(schedule1, schedule2) ==
    IF schedule1.day # schedule2.day THEN 0 ELSE 1

TooFar(combination, value) ==
    \E i \in 1..Len(combination.subjects) :
      \E j \in (i + 1)..Len(combination.subjects) :
        \E a \in 1..Len(combination.subjects[i].commissionTimes) :
          \E b \in 1..Len(combination.subjects[j].commissionTimes) :
            LET currentTime1 == combination.subjects[i].commissionTimes[a]
                currentTime2 == combination.subjects[j].commissionTimes[b]
            IN /\ currentTime1.building # currentTime2.building
               /\ GetTravelTime(currentTime1, currentTime2) > value

\* the TRAVEL case never returns false: tooFar only withholds the index
VerifyTravel(combination, currentPriority) ==
    IF TooFar(combination, currentPriority.value) THEN "skip" ELSE "push"

\* the switch on currentPriority.type; an unknown type matches no case
VerifyCase(combination, currentPriority) ==
    CASE currentPriority.type = "SUPERPOSITION" -> VerifySuperposition(combination, currentPriority)
      [] currentPriority.type = "COMMISSION" -> VerifyCommission(combination, currentPriority)
      [] currentPriority.type = "PROFESSOR" -> VerifyProfessor(combination, currentPriority)
      [] currentPriority.type = "FREEDAY" -> VerifyFreeday(combination, currentPriority)
      [] currentPriority.type = "BUSYTIME" -> VerifyBusytime(combination, currentPriority)
      [] currentPriority.type = "LOCATION" -> VerifyLocation(combination, currentPriority)
      [] currentPriority.type = "TRAVEL" -> VerifyTravel(combination, currentPriority)
      [] OTHER -> "skip"

RECURSIVE VerifyFrom(_, _, _)
\* the for loop over priorities, from position index on
VerifyFrom(combination, priorityList, index) ==
    IF index >= Len(priorityList)
    THEN [result |-> TRUE, combination |-> combination]
    ELSE LET outcome == VerifyCase(combination, priorityList[index + 1])
         IN CASE outcome = "reject" -> [result |-> FALSE, combination |-> combination]
              [] outcome = "push" ->
                   VerifyFrom([combination EXCEPT !.priorities = Push(@, index)],
                              priorityList, index + 1)
              [] OTHER -> VerifyFrom(combination, priorityList, index + 1)

\* verifiesPriorities(combination, priorities): the boolean returned and the
\* combination as the call leaves it
VerifiesPriorities(combination, priorityList) ==
    VerifyFrom(combination, priorityList, 0)

-----------------------------------------------------------------------------
(* searchCombinations *)

\* nodeCommission.professors: undefined when the object has no such property
ProfessorsOf(nodeCommission) ==
    IF HasOwnProperty(nodeCommission, "professors")
    THEN Some(nodeCommission.professors) ELSE None

\* the CombinationSubject built for one commission of the node's subject
NewSubject(nodeSubject, nodeCommission) ==
    NewCombinationSubject(
        nodeSubject.name,
        nodeSubject.code,
        IF HasOwnProperty(nodeCommission, "teachers")
        THEN ProfessorsOf(nodeCommission) ELSE None,
        nodeCommission.label,
        nodeCommission.schedule)

\* the verifier bound in schedulerAlgorithm
Verifier(combination, priorityList) == VerifiesPriorities(combination, priorityList)

\* a leaf that keeps its combination whatever the verifier returns
SearchLeafKeepAll(combination, priorityList) ==
    LET v == Verifier(combination, priorityList)
    IN [combinations |-> << v.combination >>,
        verified |-> << [subjects |-> combination.subjects,
                         priorities |-> v.combination.priorities,
                         result |-> v.result] >>]

\* a leaf that gives nothing for a combination without subjects
SearchLeafNonEmpty(combination, priorityList) ==
    LET v == Verifier(combination, priorityList)
    IN IF Len(combination.subjects) = 0
       THEN [combinations |-> << >>, verified |-> << >>]
       ELSE [combinations |-> IF v.result THEN << v.combination >> ELSE << >>,
             verified |-> << [subjects |-> combination.subjects,
                              priorities |-> v.combination.priorities,
                              result |-> v.result] >>]

\* what a leaf does: one call of the verifier, the combination kept if accepted
SearchLeaf(combination, priorityList) ==
    LET v == Verifier(combination, priorityList)
    IN [combinations |-> IF v.result THEN << v.combination >> ELSE << >>,
        verified |-> << [subjects |-> combination.subjects,
                         priorities |-> v.combination.priorities,
                         result |-> v.result] >>]

RECURSIVE SearchCombinations(_, _, _)
RECURSIVE SearchCommissions(_, _, _, _, _)

\* the for loop over nodeCommissions, from the k-th commission on
SearchCommissions(nodeSubject, rest, priorityList, combination, k) ==
    IF k > Len(nodeSubject.commissions)
    THEN [combinations |-> << >>, verified |-> << >>]
    ELSE LET nodeCommission == nodeSubject.commissions[k]
             newCombination ==
                 [CombinationCopy(combination) EXCEPT
                     !.subjects = Push(@, NewSubject(nodeSubject, nodeCommission))]
             recursiveCombinations ==
                 SearchCombinations(Slice(rest), priorityList, newCombination)
             following ==
                 SearchCommissions(nodeSubject, rest, priorityList, combination, k + 1)
         IN [combinations |-> recursiveCombinations.combinations \o following.combinations,
             verified |-> recursiveCombinations.verified \o following.verified]

\* an enumerator that asks the verifier about a partial combination and
\* abandons the branch it rejects
SearchCombinationsPruned(subjectList, priorityList, combination) ==
    IF Len(subjectList) > 0
    THEN LET v == Verifier(combination, priorityList)
         IN IF Len(combination.subjects) > 0 /\ ~v.result
            THEN [combinations |-> << >>,
                  verified |-> << [subjects |-> combination.subjects,
                                   priorities |-> v.combination.priorities,
                                   result |-> v.result] >>]
            ELSE SearchCommissions(PopValue(subjectList), PopRest(subjectList),
                                   priorityList, combination, 1)
    ELSE SearchLeaf(combination, priorityList)

\* searchCombinations(subjects, verifier, combination): the list returned and
\* the calls of the verifier it made
SearchCombinations(subjectList, priorityList, combination) ==
    IF Len(subjectList) > 0
    THEN SearchCommissions(PopValue(subjectList), PopRest(subjectList),
                           priorityList, combination, 1)
    ELSE SearchLeaf(combination, priorityList)

-----------------------------------------------------------------------------
(* weightAlgorithm and computeWeight *)

\* function transformation(value) of schedulerAlgorithm
Transformation(value) == value

\* one round of the loop over combinationPriorities; threw: currentSubject is
\* undefined and reading its weight raises a TypeError
IndexedTerm(priorityList, index, selections) ==
    LET currentPriority == priorityList[index + 1]
    IN IF HasSubjectRelated(currentPriority)
       THEN IF HasCode(selections, currentPriority.relatedSubjectCode)
            THEN [threw |-> FALSE,
                  value |-> Transformation(currentPriority.weight)
                            * Transformation(FindByCode(selections,
                                  currentPriority.relatedSubjectCode).weight)]
            ELSE [threw |-> TRUE, value |-> 0]
       ELSE [threw |-> FALSE, value |-> Transformation(currentPriority.weight)]

RECURSIVE IndexedWeight(_, _, _, _)
IndexedWeight(priorityList, combinationPriorities, selections, k) ==
    IF k > Len(combinationPriorities) THEN [threw |-> FALSE, value |-> 0]
    ELSE LET term == IndexedTerm(priorityList, combinationPriorities[k], selections)
             following == IndexedWeight(priorityList, combinationPriorities, selections, k + 1)
         IN IF term.threw THEN term
            ELSE [threw |-> following.threw, value |-> term.value + following.value]

\* a base that counts only the selections that resolved to a catalog subject
WeightBaseResolved(priorityList, selections) ==
    Len(priorityList) * Transformation(Len(priorityList))
        * Transformation(Cardinality({ k \in 1..Len(selections) :
                                         HasCode(subjects, selections[k].code) }))

\* a base with the number of priorities taken once
WeightBaseLinear(priorityList, selections) ==
    Transformation(Len(priorityList)) * Transformation(Len(selections))

WeightBase(priorityList, selections) ==
    Len(priorityList) * Transformation(Len(priorityList)) * Transformation(Len(selections))

\* a weight whose base is not multiplied by the number of priorities
WeightAlgorithmFlat(priorityList, combinationPriorities, selections) ==
    LET base == WeightBase(priorityList, selections)
        indexedWeight == IndexedWeight(priorityList, combinationPriorities, selections, 1)
    IN [threw |-> indexedWeight.threw, value |-> base + indexedWeight.value]

WeightAlgorithm(priorityList, combinationPriorities, selections) ==
    LET base == WeightBase(priorityList, selections)
        weight == base * Len(combinationPriorities)
        indexedWeight == IndexedWeight(priorityList, combinationPriorities, selections, 1)
    IN [threw |-> indexedWeight.threw, value |-> weight + indexedWeight.value]

\* a scorer that uses up the priorities list it reads
ComputeWeightClearing(combination, priorityList, selections) ==
    [combination EXCEPT
        !.weight = WeightAlgorithm(priorityList, combination.priorities, selections).value,
        !.priorities = << >>]

\* computeWeight: writes combination.weight
ComputeWeight(combination, priorityList, selections) ==
    [combination EXCEPT
        !.weight = WeightAlgorithm(priorityList, combination.priorities, selections).value]

WeightThrows(combination, priorityList, selections) ==
    WeightAlgorithm(priorityList, combination.priorities, selections).threw

-----------------------------------------------------------------------------
(* the two sort strategies *)

\* the injected key extractor and predicate, named by a tag
Get(get, element) == IF get = "weight" THEN element.weight ELSE element
Condition(condition, current, pivot) ==
    CASE condition = "less" -> current < pivot
      [] condition = "notGreater" -> current <= pivot
      [] OTHER -> current > pivot

RECURSIVE PartitionWhileInverted(_, _, _, _, _, _)
\* a while loop that swaps on the elements the predicate holds for
PartitionWhileInverted(list, i, partitionIndex, pivotValue, get, condition) ==
    IF partitionIndex > i
    THEN LET next == partitionIndex - 1
             swapingValue == Get(get, list[next + 1])
         IN IF Condition(condition, swapingValue, pivotValue)
            THEN [list |-> [list EXCEPT ![i + 1] = list[next + 1],
                                        ![next + 1] = list[i + 1]],
                  partitionIndex |-> next]
            ELSE PartitionWhileInverted(list, i, next, pivotValue, get, condition)
    ELSE [list |-> list, partitionIndex |-> partitionIndex]

\* a swap without the auxiliary: the second write reads the overwritten slot
SwapOverwrite(list, one, two) ==
    LET first == [list EXCEPT ![one + 1] = list[two + 1]]
    IN [first EXCEPT ![two + 1] = first[one + 1]]

\* swap(list, one, two); list is the array being sorted itself
Swap(list, one, two) ==
    LET auxiliar == list[one + 1]
        first == [list EXCEPT ![one + 1] = list[two + 1]]
    IN [first EXCEPT ![two + 1] = auxiliar]

RECURSIVE PartitionWhile(_, _, _, _, _, _)
\* while (partitionIndex > i) { ... }: the list and partitionIndex it leaves
PartitionWhile(list, i, partitionIndex, pivotValue, get, condition) ==
    IF partitionIndex > i
    THEN LET next == partitionIndex - 1
             swapingValue == Get(get, list[next + 1])
         IN IF ~Condition(condition, swapingValue, pivotValue)
            THEN [list |-> Swap(list, i, next), partitionIndex |-> next]
            ELSE PartitionWhile(list, i, next, pivotValue, get, condition)
    ELSE [list |-> list, partitionIndex |-> partitionIndex]

RECURSIVE PartitionFor(_, _, _, _, _, _, _, _)
\* for (i = leftIndex; i <= rightIndex; i++) { ... }, from i on
PartitionFor(list, i, rightIndex, pivot, partitionIndex, pivotValue, get, condition) ==
    IF i > rightIndex THEN [list |-> list, partitionIndex |-> partitionIndex]
    ELSE IF Condition(condition, Get(get, list[i + 1]), pivotValue)
         THEN LET w == PartitionWhile(list, i, partitionIndex, pivotValue, get, condition)
              IN IF w.partitionIndex <= i
                 THEN [list |-> Swap(w.list, pivot, w.partitionIndex),
                       partitionIndex |-> w.partitionIndex]
                 ELSE PartitionFor(w.list, i + 1, rightIndex, pivot, w.partitionIndex,
                                   pivotValue, get, condition)
         ELSE PartitionFor(list, i + 1, rightIndex, pivot, partitionIndex,
                           pivotValue, get, condition)

\* a partition around the leftmost element of the range
PartitionLeftmost(list, leftIndex, rightIndex, pivot, get, condition) ==
    PartitionFor(list, leftIndex, rightIndex, leftIndex, leftIndex,
                 Get(get, list[leftIndex + 1]), get, condition)

\* partition(list, leftIndex, rightIndex, pivot): the list and the index returned
Partition(list, leftIndex, rightIndex, pivot, get, condition) ==
    PartitionFor(list, leftIndex, rightIndex, pivot, pivot,
                 Get(get, list[pivot + 1]), get, condition)

\* a work-list that is given the range left of the partition index only
PushIntervalsLeftOnly(interval, iterLeft, partitionIndex, iterRight) ==
    Push(interval, << iterLeft, partitionIndex - 1 >>)

\* a work-list that is given the partition index with the left range
PushIntervalsWithPivot(interval, iterLeft, partitionIndex, iterRight) ==
    Push(Push(interval, << iterLeft, partitionIndex >>),
         << partitionIndex + 1, iterRight >>)

\* the two interval.push of an iteration that partitioned
PushIntervals(interval, iterLeft, partitionIndex, iterRight) ==
    Push(Push(interval, << iterLeft, partitionIndex - 1 >>),
         << partitionIndex + 1, iterRight >>)

RECURSIVE QuicksortLoop(_, _, _, _)
\* the do-while over the work-list interval, a queue of << left, right >>
QuicksortLoop(array, interval, get, condition) ==
    LET iterInterval == Head(interval)
        shifted == Tail(interval)
        iterLeft == iterInterval[1]
        iterRight == iterInterval[2]
    IN IF iterLeft < iterRight
       THEN LET p == Partition(array, iterLeft, iterRight, iterRight, get, condition)
                pushed == PushIntervals(shifted, iterLeft, p.partitionIndex, iterRight)
            IN QuicksortLoop(p.list, pushed, get, condition)
       ELSE IF Len(shifted) > 0
            THEN QuicksortLoop(array, shifted, get, condition)
            ELSE array

Quicksort(array, left, right, get, condition) ==
    QuicksortLoop(array, << << left, right >> >>, get, condition)

RECURSIVE QuicksortRecursive(_, _, _, _, _)
\* quicksort of the earlier draft: the same partition, then a call on the
\* range left of the partition index and a call on the range right of it
QuicksortRecursive(array, left, right, get, condition) ==
    IF left < right
    THEN LET p == Partition(array, left, right, right, get, condition)
             lower == QuicksortRecursive(p.list, left, p.partitionIndex - 1,
                                         get, condition)
         IN QuicksortRecursive(lower, p.partitionIndex + 1, right, get, condition)
    ELSE array

\* the comparator (a, b) => b.weight - a.weight
Comparator(a, b) == b.weight - a.weight

RECURSIVE InsertSorted(_, _)
\* element put behind every element that does not sort after it
InsertSorted(sorted, element) ==
    IF Len(sorted) = 0 THEN << element >>
    ELSE IF Comparator(Head(sorted), element) <= 0
         THEN << Head(sorted) >> \o InsertSorted(Tail(sorted), element)
         ELSE << element >> \o sorted

RECURSIVE ComparatorSortFrom(_, _, _)
ComparatorSortFrom(list, k, sorted) ==
    IF k > Len(list) THEN sorted
    ELSE ComparatorSortFrom(list, k + 1, InsertSorted(sorted, list[k]))

\* combinations.sort((a, b) => b.weight - a.weight): a stable sort
ComparatorSort(list) == ComparatorSortFrom(list, 1, << >>)

\* a parameter sort without default value
SortParameterNoDefault(arg) == arg

\* the default value of the parameter sort
SortParameter(arg) == IF arg = Omitted THEN "sort" ELSE arg

\* switch (sort): no case matches another string
SortCombinations(list, sort) ==
    CASE sort = "sort" -> ComparatorSort(list)
      [] sort = "quicksort" -> Quicksort(list, 0, Len(list) - 1, "weight", "less")
      [] OTHER -> list

-----------------------------------------------------------------------------
(* the inputs the calls are drawn from *)

Take(list, n) == SubSeq(list, 1, Min(n, Len(list)))

Commission(label, ownProps, professors, schedule) ==
    [label |-> label, ownProps |-> ownProps, professors |-> professors,
     schedule |-> schedule]

PropsPlain == { "label", "professors", "schedule" }
PropsTeachers == { "label", "teachers", "professors", "schedule" }

\* commissions of subject A: Monday morning in building B1; Monday in B2 and
\* Tuesday in B1; every weekday in B1
CommissionsA ==
    << Commission("a1", PropsTeachers, << "p1" >>,
                  << Timeblock(1, 8, 10, "B1") >>),
       Commission("a2", PropsPlain, << "p1", "p2" >>,
                  << Timeblock(1, 9, 11, "B2"), Timeblock(2, 8, 10, "B1") >>),
       Commission("a3", { "label", "schedule" }, << >>,
                  << Timeblock(1, 8, 10, "B1"), Timeblock(2, 8, 10, "B1"),
                     Timeblock(3, 8, 10, "B1"), Timeblock(4, 8, 10, "B1"),
                     Timeblock(5, 8, 10, "B1") >>),
       Commission("a4", PropsTeachers, << "p2" >>,
                  << Timeblock(4, 8, 10, "B2") >>) >>

\* commissions of subject B: Monday in B2; Tuesday to Friday in B1; Wednesday
CommissionsB ==
    << Commission("b1", PropsPlain, << "p3" >>,
                  << Timeblock(1, 9, 12, "B2") >>),
       Commission("b2", PropsTeachers, << "p3" >>,
                  << Timeblock(2, 8, 10, "B1"), Timeblock(3, 8, 10, "B1"),
                     Timeblock(4, 8, 10, "B1"), Timeblock(5, 8, 10, "B1") >>),
       Commission("b3", PropsPlain, << "p1" >>,
                  << Timeblock(3, 8, 10, "B1") >>),
       Commission("b4", PropsPlain, << >>,
                  << Timeblock(5, 9, 10, "B2") >>) >>

Subject(code, name, commissions) ==
    [code |-> code, name |-> name, commissions |-> commissions]

Catalogs ==
    { << Subject("A", "Subject A", Take(CommissionsA, nA)),
         Subject("B", "Subject B", Take(CommissionsB, nB)) >> :
        nA \in 0..MaxCommissions, nB \in { 1, MaxCommissions } }

SubjectSelection(code, weight) == [code |-> code, weight |-> weight]

\* "Z" is a code of no catalog subject
SelectionPool ==
    << SubjectSelection("A", 2), SubjectSelection("B", 3), SubjectSelection("Z", 1) >>

\* lists of distinct positions of a pool of n entries, at most max long
DistinctIndexLists(n, max) ==
    UNION { { ix \in [1..len -> 1..n] :
                \A a, b \in 1..len : a # b => ix[a] # ix[b] } : len \in 0..max }

\* lists of increasing positions of a pool of n entries, at most max long
IncreasingIndexLists(n, max) ==
    UNION { { ix \in [1..len -> 1..n] :
                \A a, b \in 1..len : a < b => ix[a] < ix[b] } : len \in 0..max }

Selections ==
    { [k \in 1..Len(ix) |-> SelectionPool[ix[k]]] :
        ix \in DistinctIndexLists(Len(SelectionPool), MaxSelected) }

Priority(type, value, weight, relatedSubjectCode, exclusive) ==
    [type |-> type, value |-> value, weight |-> weight,
     relatedSubjectCode |-> relatedSubjectCode, exclusive |-> exclusive]

BusyMondayMorning == << Timeblock(1, 8, 9, "B1") >>

PriorityPool ==
    << Priority("SUPERPOSITION", 0, 3, Undefined, TRUE),
       Priority("SUPERPOSITION", 1, 2, Undefined, FALSE),
       Priority("COMMISSION", "a1", 2, "A", TRUE),
       Priority("COMMISSION", "b2", 1, "B", FALSE),
       Priority("PROFESSOR", "p1", 3, "A", TRUE),
       Priority("PROFESSOR", "p1", 1, "A", FALSE),
       Priority("FREEDAY", MONDAY, 2, Undefined, TRUE),
       Priority("FREEDAY", 3, 1, Undefined, FALSE),
       Priority("FREEDAY", ANY, 1, Undefined, TRUE),
       Priority("BUSYTIME", BusyMondayMorning, 2, Undefined, TRUE),
       Priority("BUSYTIME", BusyMondayMorning, 1, Undefined, FALSE),
       Priority("LOCATION", 0, 1, Undefined, TRUE),
       Priority("LOCATION", 0, 2, "B", FALSE),
       Priority("TRAVEL", 0, 2, Undefined, TRUE),
       Priority("TRAVEL", 0, 1, Undefined, FALSE) >>

\* the priority list that holds the pool entries at the positions ix
PriorityList(ix) == [k \in 1..Len(ix) |-> PriorityPool[ix[k]]]

PriorityIndexLists == IncreasingIndexLists(Len(PriorityPool), MaxPriorities)

SortArgs == { Omitted, "sort", "quicksort", "comparator" }

-----------------------------------------------------------------------------
(* schedulerAlgorithm, one action per numbered step of its body *)

\* no call of quicksort and no run of the enumerator under observation
NoSorting == [pc |-> "none"]
NoEnumeration == [pc |-> "none"]

Init ==
    /\ sorting = NoSorting
    /\ enumeration = NoEnumeration
    /\ subjects \in Catalogs
    /\ selectedSubjects \in Selections
    /\ \E ix \in PriorityIndexLists : priorities = PriorityList(ix)
    /\ sortArg \in SortArgs
    /\ pc = "called"
    /\ chosenSubjects = << >>
    /\ combinations = << >>
    /\ verified = << >>

RECURSIVE ChosenFromStop(_, _, _)
\* a loop over selectedSubjects that ends at the first selection of no
\* catalog subject
ChosenFromStop(catalog, selections, k) ==
    IF k > Len(selections) THEN << >>
    ELSE IF HasCode(catalog, selections[k].code)
         THEN << FindByCode(catalog, selections[k].code) >>
              \o ChosenFromStop(catalog, selections, k + 1)
         ELSE << >>

RECURSIVE ChosenFrom(_, _, _)
\* the loop over selectedSubjects: a selection of no catalog subject adds nothing
ChosenFrom(catalog, selections, k) ==
    IF k > Len(selections) THEN << >>
    ELSE IF HasCode(catalog, selections[k].code)
         THEN << FindByCode(catalog, selections[k].code) >>
              \o ChosenFrom(catalog, selections, k + 1)
         ELSE ChosenFrom(catalog, selections, k + 1)

ChosenSubjects(catalog, selections) == ChosenFrom(catalog, selections, 1)

\* a step 1 that hands the caller's array to the enumerator, whose pop then
\* shortens the catalog
ArraysAfterSearchShared(catalog, selections) ==
    LET chosen == ChosenSubjects(catalog, selections)
    IN [subjects |-> IF Len(chosen) > 0 THEN PopRest(catalog) ELSE catalog,
        chosenSubjects |-> IF Len(chosen) > 0 THEN PopRest(chosen) ELSE chosen]

\* the two arrays of subjects as step 1 leaves them: subjects, the caller's,
\* is only read by find; chosenSubjects is a new array, and it is the one the
\* enumerator pops its first subject from
ArraysAfterSearch(catalog, selections) ==
    LET chosen == ChosenSubjects(catalog, selections)
    IN [subjects |-> catalog,
        chosenSubjects |-> IF Len(chosen) > 0 THEN PopRest(chosen) ELSE chosen]

\* step 1: resolve the selections and run the enumerator
Search ==
    /\ pc = "called"
    /\ LET chosen == ChosenSubjects(subjects, selectedSubjects)
           found == SearchCombinations(chosen, priorities, NewCombination)
           arrays == ArraysAfterSearch(subjects, selectedSubjects)
       IN /\ combinations' = found.combinations
          /\ verified' = found.verified
          /\ chosenSubjects' = arrays.chosenSubjects
          /\ subjects' = arrays.subjects
    /\ pc' = "searched"
    /\ UNCHANGED << selectedSubjects, priorities, sortArg, sorting, enumeration >>

\* step 2: score every combination; a TypeError leaves the call
Score ==
    /\ pc = "searched"
    /\ IF \E k \in 1..Len(combinations) :
             WeightThrows(combinations[k], priorities, selectedSubjects)
       THEN /\ pc' = "threw"
            /\ UNCHANGED combinations
       ELSE /\ pc' = "scored"
            /\ combinations' =
                 [k \in 1..Len(combinations) |->
                     ComputeWeight(combinations[k], priorities, selectedSubjects)]
    /\ UNCHANGED << subjects, selectedSubjects, priorities, sortArg,
                    chosenSubjects, verified, sorting, enumeration >>

\* steps 3 and 4: order the combinations and return them
Sort ==
    /\ pc = "scored"
    /\ combinations' = SortCombinations(combinations, SortParameter(sortArg))
    /\ pc' = "returned"
    /\ UNCHANGED << subjects, selectedSubjects, priorities, sortArg,
                    chosenSubjects, verified, sorting, enumeration >>

\* schedulerAlgorithm as a function of its arguments: the list a call that
\* does not throw returns
SchedulerAlgorithm(catalog, selections, priorityList, sort) ==
    LET found == SearchCombinations(ChosenSubjects(catalog, selections),
                                    priorityList, NewCombination).combinations
        scored == [k \in 1..Len(found) |->
                      ComputeWeight(found[k], priorityList, selections)]
    IN SortCombinations(scored, SortParameter(sort))

Next == Search \/ Score \/ Sort

Spec == Init /\ [][Next]_vars

-----------------------------------------------------------------------------
(* quicksort called on its own: one action per iteration of the do-while    *)

\* the array of the given keys: numbers under the default key extractor,
\* objects with a weight under the orchestrator's
ArrayOf(keys, get) ==
    [k \in 1..Len(keys) |->
        IF get = "weight" THEN [weight |-> keys[k], position |-> k - 1]
        ELSE keys[k]]

\* the key extractors and the predicates of the calls: the orchestrator's
\* and the default ones, and a predicate that is not strict
KeyExtractors == { "weight", Omitted }
Predicates == { "less", "notGreater", Omitted }

SortInit ==
    /\ subjects = << >>
    /\ selectedSubjects = << >>
    /\ priorities = << >>
    /\ sortArg = Omitted
    /\ pc = "none"
    /\ chosenSubjects = << >>
    /\ combinations = << >>
    /\ verified = << >>
    /\ enumeration = NoEnumeration
    /\ \E length \in 0..MaxLength : \E keys \in [1..length -> 0..MaxKey] :
       \E get \in KeyExtractors : \E condition \in Predicates :
       \E left \in 0..Max(length - 1, 0) : \E right \in (-1)..(length - 1) :
          sorting = [pc |-> "loop",
                     array |-> ArrayOf(keys, get),
                     interval |-> << << left, right >> >>,
                     get |-> get,
                     condition |-> condition,
                     left |-> left,
                     right |-> right,
                     initial |-> ArrayOf(keys, get),
                     partitionIndex |-> None]

\* one iteration of do { ... } while (interval.length > 0), and the return
\* that follows the last one
QuicksortIterate ==
    /\ sorting.pc = "loop"
    /\ LET iterInterval == Head(sorting.interval)
           shifted == Tail(sorting.interval)
           iterLeft == iterInterval[1]
           iterRight == iterInterval[2]
           p == Partition(sorting.array, iterLeft, iterRight, iterRight,
                          sorting.get, sorting.condition)
           interval == IF iterLeft < iterRight
                       THEN PushIntervals(shifted, iterLeft, p.partitionIndex, iterRight)
                       ELSE shifted
       IN sorting' = [sorting EXCEPT
                         !.array = IF iterLeft < iterRight THEN p.list ELSE @,
                         !.interval = interval,
                         !.partitionIndex = IF iterLeft < iterRight
                                            THEN Some(p.partitionIndex) ELSE None,
                         !.pc = IF Len(interval) > 0 THEN "loop" ELSE "returned"]
    /\ UNCHANGED << subjects, selectedSubjects, priorities, sortArg, pc,
                    chosenSubjects, combinations, verified, enumeration >>

SortNext == QuicksortIterate

SpecSort == SortInit /\ [][SortNext]_vars

\* the loop is the only thing the single thread of the call does: an
\* iteration that can be taken is taken
SpecSortFair == SpecSort /\ WF_vars(QuicksortIterate)

-----------------------------------------------------------------------------
(* searchCombinations on arrays with identity: every array is a slot of a   *)
(* heap and is named by its position there; one action per step of a call  *)

\* subjects.slice() that gives back the array it was called on
SliceArrayShared(arrays, ref) == [arrays |-> arrays, ref |-> ref]

\* subjects.slice(): a new array with the elements of the array at ref
SliceArray(arrays, ref) ==
    [arrays |-> Append(arrays, Slice(arrays[ref])), ref |-> Len(arrays) + 1]

\* Combination.copy(combination): a new Combination with new lists that
\* hold the elements of the lists of combination
CopyOf(subjectLists, priorityLists, combination) ==
    [subjectLists |-> Append(subjectLists, subjectLists[combination.subjects]),
     priorityLists |-> Append(priorityLists, priorityLists[combination.priorities]),
     combination |-> [subjects |-> Len(subjectLists) + 1,
                      priorities |-> Len(priorityLists) + 1]]

\* the Combination object a reference leads to, as a value
CombinationAt(e, combination) ==
    [NewCombination EXCEPT
        !.subjects = e.subjectLists[combination.subjects],
        !.priorities = e.priorityLists[combination.priorities]]

\* the activation of a call searchCombinations(subjects, verifier, combination)
Activation(subjectsRef, combination) ==
    [pc |-> "enter", subjects |-> subjectsRef, combination |-> combination,
     nodeSubject |-> None, k |-> 0, combinations |-> << >>]

\* return list: the caller concatenates it to its combinations; the first
\* call hands it to schedulerAlgorithm
ReturnTo(e, list) ==
    LET callers == PopRest(e.stack)
    IN IF Len(callers) = 0
       THEN [e EXCEPT !.stack = callers, !.returned = list, !.pc = "done"]
       ELSE [e EXCEPT !.stack =
                [callers EXCEPT ![Len(callers)].combinations = @ \o list]]

\* priority lists of the runs: none, a non-exclusive SUPERPOSITION, an
\* exclusive COMMISSION, an exclusive SUPERPOSITION with a COMMISSION
EnumerationPriorities == { << >>, << 2 >>, << 3 >>, << 1, 4 >> }

EnumerationInit ==
    /\ subjects \in Catalogs
    /\ selectedSubjects \in Selections
    /\ \E ix \in EnumerationPriorities : priorities = PriorityList(ix)
    /\ sortArg = Omitted
    /\ pc = "none"
    /\ chosenSubjects = << >>
    /\ combinations = << >>
    /\ verified = << >>
    /\ sorting = NoSorting
    /\ enumeration =
          [pc |-> "run",
           subjectArrays |-> << ChosenSubjects(subjects, selectedSubjects) >>,
           subjectLists |-> << NewCombination.subjects >>,
           priorityLists |-> << NewCombination.priorities >>,
           stack |-> << Activation(1, [subjects |-> 1, priorities |-> 1]) >>,
           terminals |-> << >>,
           returned |-> << >>]

\* the activation on top of the stack
Running == enumeration.stack[Len(enumeration.stack)]

\* subjects.length > 0: nodeSubject = subjects.pop()
EnumerationPop ==
    /\ enumeration.pc = "run"
    /\ Running.pc = "enter"
    /\ Len(enumeration.subjectArrays[Running.subjects]) > 0
    /\ LET array == enumeration.subjectArrays[Running.subjects]
       IN enumeration' =
            [enumeration EXCEPT
                !.subjectArrays[Running.subjects] = PopRest(array),
                !.stack[Len(enumeration.stack)] =
                    [Running EXCEPT !.pc = "loop",
                                    !.nodeSubject = Some(PopValue(array))]]
    /\ UNCHANGED << subjects, selectedSubjects, priorities, sortArg, pc,
                    chosenSubjects, combinations, verified, sorting >>

\* one round of the loop over nodeCommissions, up to the recursive call
EnumerationBranch ==
    /\ enumeration.pc = "run"
    /\ Running.pc = "loop"
    /\ Running.k < Len(ValueOf(Running.nodeSubject).commissions)
    /\ LET nodeSubject == ValueOf(Running.nodeSubject)
           nodeCommission == nodeSubject.commissions[Running.k + 1]
           copy == CopyOf(enumeration.subjectLists, enumeration.priorityLists,
                          Running.combination)
           newCombination == copy.combination
           slice == SliceArray(enumeration.subjectArrays, Running.subjects)
       IN enumeration' =
            [enumeration EXCEPT
                !.subjectLists =
                    [copy.subjectLists EXCEPT ![newCombination.subjects] =
                        Push(@, NewSubject(nodeSubject, nodeCommission))],
                !.priorityLists = copy.priorityLists,
                !.subjectArrays = slice.arrays,
                !.stack = Push([enumeration.stack EXCEPT
                                   ![Len(enumeration.stack)].k = @ + 1],
                               Activation(slice.ref, newCombination))]
    /\ UNCHANGED << subjects, selectedSubjects, priorities, sortArg, pc,
                    chosenSubjects, combinations, verified, sorting >>

\* the loop is over: return combinations
EnumerationReturn ==
    /\ enumeration.pc = "run"
    /\ Running.pc = "loop"
    /\ Running.k >= Len(ValueOf(Running.nodeSubject).commissions)
    /\ enumeration' = ReturnTo(enumeration, Running.combinations)
    /\ UNCHANGED << subjects, selectedSubjects, priorities, sortArg, pc,
                    chosenSubjects, combinations, verified, sorting >>

\* no subjects left: return verifier(combination) ? [combination] : []; the
\* verifier appends to the priorities list of the combination
EnumerationLeaf ==
    /\ enumeration.pc = "run"
    /\ Running.pc = "enter"
    /\ Len(enumeration.subjectArrays[Running.subjects]) = 0
    /\ LET v == Verifier(CombinationAt(enumeration, Running.combination), priorities)
           left == [enumeration EXCEPT
                       !.priorityLists[Running.combination.priorities] =
                           v.combination.priorities,
                       !.terminals = Push(@, Running.combination)]
       IN enumeration' =
            ReturnTo(left, IF v.result THEN << Running.combination >> ELSE << >>)
    /\ UNCHANGED << subjects, selectedSubjects, priorities, sortArg, pc,
                    chosenSubjects, combinations, verified, sorting >>

EnumerationNext ==
    EnumerationPop \/ EnumerationBranch \/ EnumerationReturn \/ EnumerationLeaf

SpecEnumeration == EnumerationInit /\ [][EnumerationNext]_vars

-----------------------------------------------------------------------------
(* weightAlgorithm alone: step 2 on lists of combinations with every        *)
(* priorities list the verifier can leave                                   *)

\* n priorities of the given weights; the first one names subject "A" if
\* related
WeightedPriorities(weights, related) ==
    [i \in 1..Len(weights) |->
        IF related /\ i = 1
        THEN Priority("COMMISSION", "a1", weights[i], "A", FALSE)
        ELSE Priority("SUPERPOSITION", 0, weights[i], Undefined, FALSE)]

\* no selection, subject A, or subject A and a code of no catalog subject
WeightedSelections ==
    { << >> }
    \cup { << SubjectSelection("A", w) >> : w \in 0..MaxSelectionWeight }
    \cup { << SubjectSelection("A", w), SubjectSelection("Z", 1) >> :
             w \in 0..MaxSelectionWeight }

RECURSIVE AllIndexLists(_)
\* every increasing list of indices below n
AllIndexLists(n) ==
    IF n = 0 THEN << << >> >>
    ELSE LET without == AllIndexLists(n - 1)
         IN without \o [k \in 1..Len(without) |-> Append(without[k], n - 1)]

\* the state after step 1 of a call whose enumerator returned one
\* combination for every set of satisfied priorities
WeightInit ==
    /\ sorting = NoSorting
    /\ enumeration = NoEnumeration
    /\ \E n \in 0..MaxWeighted : \E weights \in [1..n -> 0..MaxPriorityWeight] :
       \E related \in BOOLEAN :
          /\ priorities = WeightedPriorities(weights, related)
          /\ selectedSubjects \in WeightedSelections
          /\ related => (n > 0 /\ HasCode(selectedSubjects, "A"))
          /\ combinations =
                [k \in 1..Len(AllIndexLists(n)) |->
                    [NewCombination EXCEPT !.priorities = AllIndexLists(n)[k]]]
    /\ subjects = << >>
    /\ sortArg = Omitted
    /\ pc = "searched"
    /\ chosenSubjects = << >>
    /\ verified = << >>

WeightNext == Score

SpecWeight == WeightInit /\ [][WeightNext]_vars

-----------------------------------------------------------------------------
(* Vocabulary of the properties *)

Range(list) == { list[k] : k \in 1..Len(list) }

Weights(list) == [k \in 1..Len(list) |-> list[k].weight]

Descending(numbers) ==
    \A k \in 1..(Len(numbers) - 1) : numbers[k] >= numbers[k + 1]

\* how often a value occurs in a list
Occurrences(list, value) == Cardinality({ k \in 1..Len(list) : list[k] = value })

SameMultiset(a, b) ==
    /\ Len(a) = Len(b)
    /\ \A k \in 1..Len(a) : Occurrences(a, a[k]) = Occurrences(b, a[k])

\* the subjects the call resolves, as the orchestrator hands them to the enumerator
Resolved == ChosenSubjects(subjects, selectedSubjects)

\* one commission (by position) for each subject of a list
Assignments(resolved) ==
    { f \in [1..Len(resolved) -> 1..MaxCommissions] :
        \A k \in 1..Len(resolved) : f[k] <= Len(resolved[k].commissions) }

RECURSIVE ProductOfCounts(_, _)
ProductOfCounts(list, k) ==
    IF k > Len(list) THEN 1
    ELSE Len(list[k].commissions) * ProductOfCounts(list, k + 1)

\* a list of CombinationSubjects is the assignment f: one entry per resolved
\* subject, holding the label and the schedule of the commission f gives it
Holds(combinationSubjects, f, resolved) ==
    /\ Len(combinationSubjects) = Len(resolved)
    /\ \A k \in 1..Len(resolved) :
         Cardinality({ j \in 1..Len(combinationSubjects) :
            /\ combinationSubjects[j].code = resolved[k].code
            /\ combinationSubjects[j].name = resolved[k].name
            /\ combinationSubjects[j].commissionName = resolved[k].commissions[f[k]].label
            /\ combinationSubjects[j].commissionTimes = resolved[k].commissions[f[k]].schedule
            }) = 1

\* the terminal Combination of an assignment, subjects in the order the
\* enumerator appends them
TerminalOf(f, resolved) ==
    [NewCombination EXCEPT !.subjects =
        [j \in 1..Len(resolved) |->
            LET k == Len(resolved) + 1 - j
            IN NewSubject(resolved[k], resolved[k].commissions[f[k]])]]

\* the assignments whose terminal Combination the verifier accepts
AcceptedAssignments(resolved) ==
    { f \in Assignments(resolved) :
        Verifier(TerminalOf(f, resolved), priorities).result }

\* the "satisfied when" column of the priority table, on a list of
\* CombinationSubjects
TimeblocksOf(combinationSubjects) ==
    UNION { { << j, a >> : a \in 1..Len(combinationSubjects[j].commissionTimes) } :
              j \in 1..Len(combinationSubjects) }

BlockAt(combinationSubjects, ja) == combinationSubjects[ja[1]].commissionTimes[ja[2]]

IsFreeDay(combinationSubjects, day) ==
    \A ja \in TimeblocksOf(combinationSubjects) :
        BlockAt(combinationSubjects, ja).day # day

SatisfiedWhen(combinationSubjects, priority) ==
    LET blocks == TimeblocksOf(combinationSubjects)
        At(ja) == BlockAt(combinationSubjects, ja)
    IN CASE priority.type = "SUPERPOSITION" ->
              \A x, y \in blocks :
                  x[1] # y[1] => Overlaps(At(x), At(y)) <= priority.value
         [] priority.type = "COMMISSION" ->
              \E j \in 1..Len(combinationSubjects) :
                  /\ combinationSubjects[j].code = priority.relatedSubjectCode
                  /\ combinationSubjects[j].commissionName = priority.value
         [] priority.type = "PROFESSOR" ->
              \E j \in 1..Len(combinationSubjects) :
                  /\ combinationSubjects[j].code = priority.relatedSubjectCode
                  /\ IsDefined(combinationSubjects[j].professors)
                  /\ priority.value \in Range(ValueOf(combinationSubjects[j].professors))
         [] priority.type = "FREEDAY" ->
              \/ /\ priority.value \in Weekdays
                 /\ IsFreeDay(combinationSubjects, priority.value)
              \/ /\ priority.value = ANY
                 /\ \E day \in Weekdays : IsFreeDay(combinationSubjects, day)
         [] priority.type = "BUSYTIME" ->
              \A x \in blocks : \A b \in 1..Len(priority.value) :
                  Overlaps(At(x), priority.value[b]) = 0
         [] priority.type = "LOCATION" ->
              \A x, y \in blocks :
                  At(x).day = At(y).day => At(x).building = At(y).building
         [] priority.type = "TRAVEL" ->
              \A x, y \in blocks :
                  (x[1] # y[1] /\ At(x).building # At(y).building)
                      => GetTravelTime(At(x), At(y)) <= priority.value
         [] OTHER -> FALSE

\* positions (0-based) of the priorities of a type
IndicesOfType(type) ==
    { i \in 0..(Len(priorities) - 1) : priorities[i + 1].type = type }

-----------------------------------------------------------------------------
(* The properties *)

\* C1: every returned Combination satisfies every exclusive priority of the
\* input list: the priority's "satisfied when" condition holds on it and the
\* priority's index is in its priorities list.
C1_ReturnedSatisfyExclusive ==
    pc = "returned" =>
        \A k \in 1..Len(combinations) : \A i \in 0..(Len(priorities) - 1) :
            IsExclusive(priorities[i + 1]) =>
                /\ SatisfiedWhen(combinations[k].subjects, priorities[i + 1])
                /\ i \in Range(combinations[k].priorities)

\* C2: searchCombinations returns each assignment of the cross product once
\* if the verifier accepts it and not at all if it rejects it; nothing is
\* missing or duplicated; a subject without commissions empties the result.
C2_ExactlyAccepted ==
    pc = "searched" =>
        LET resolved == Resolved
            accepted == AcceptedAssignments(resolved)
        IN /\ \A f \in Assignments(resolved) :
                Cardinality({ k \in 1..Len(combinations) :
                                Holds(combinations[k].subjects, f, resolved) })
                    = IF f \in accepted THEN 1 ELSE 0
           /\ Len(combinations) = Cardinality(accepted)
           /\ (\E k \in 1..Len(resolved) : Len(resolved[k].commissions) = 0)
                  => combinations = << >>

\* a search over four assignments of which some are accepted and some rejected
C2_Witness ==
    /\ pc = "searched"
    /\ Cardinality(Assignments(Resolved)) >= 4
    /\ Cardinality(AcceptedAssignments(Resolved)) >= 2
    /\ Cardinality(AcceptedAssignments(Resolved)) < Cardinality(Assignments(Resolved))
    /\ Len(combinations) >= 2

\* C3: on the same scored list the comparator strategy and the quicksort
\* strategy give the same sequence of weights, descending, with the multiset
\* of weights of the list they were given.
C3_SameWeights ==
    pc = "scored" =>
        LET byComparator == SortCombinations(combinations, "sort")
            byQuicksort == SortCombinations(combinations, "quicksort")
        IN /\ Weights(byComparator) = Weights(byQuicksort)
           /\ Descending(Weights(byComparator))
           /\ Descending(Weights(byQuicksort))
           /\ SameMultiset(Weights(byComparator), Weights(combinations))
           /\ SameMultiset(Weights(byQuicksort), Weights(combinations))

\* a scored list of four combinations, out of order and with a tie, that the
\* two strategies order differently
C3_Witness ==
    /\ pc = "scored"
    /\ Len(combinations) >= 4
    /\ ~Descending(Weights(combinations))
    /\ \E k, m \in 1..Len(combinations) :
          k # m /\ combinations[k].weight = combinations[m].weight
    /\ SortCombinations(combinations, "sort") # SortCombinations(combinations, "quicksort")

\* C4 as stated: called with "comparator", with "quicksort" or with the
\* selector omitted, the combinations are returned in descending weight order.
C4_SelectorComparator ==
    (pc = "returned" /\ sortArg \in { "comparator", "quicksort", Omitted })
        => Descending(Weights(combinations))

\* C4 amended: the selector's values are "sort" and "quicksort" and it
\* defaults to "sort"; called with "sort", with "quicksort" or with the
\* selector omitted, the combinations are returned in descending weight order.
C4_SelectorSort ==
    /\ SortParameter(Omitted) = "sort"
    /\ (pc = "returned" /\ sortArg \in { "sort", "quicksort", Omitted })
           => Descending(Weights(combinations))

\* a call without selector that returned three or more combinations of
\* different weights
C4_Witness ==
    /\ pc = "returned"
    /\ sortArg = Omitted
    /\ Len(combinations) >= 3
    /\ \E k, m \in 1..Len(combinations) : combinations[k].weight > combinations[m].weight

RECURSIVE SummedTerm(_, _)
\* the sum over the indices of a priorities list of the per-priority term
SummedTerm(indices, k) ==
    IF k > Len(indices) THEN 0
    ELSE LET priority == priorities[indices[k] + 1]
             related == CHOOSE selection \in Range(selectedSubjects) :
                            selection.code = priority.relatedSubjectCode
         IN (IF priority.relatedSubjectCode # Undefined
             THEN Transformation(priority.weight) * Transformation(related.weight)
             ELSE Transformation(priority.weight))
            + SummedTerm(indices, k + 1)

\* C5: the weight of every returned combination is base times the number of
\* its priorities plus the summed per-priority term, with base =
\* |priorities| * transform(|priorities|) * transform(|selectedSubjects|),
\* every selection passed in counted.
C5_WeightFormula ==
    pc = "returned" =>
        \A k \in 1..Len(combinations) :
            combinations[k].weight =
                Len(priorities) * Transformation(Len(priorities))
                    * Transformation(Len(selectedSubjects))
                    * Len(combinations[k].priorities)
                + SummedTerm(combinations[k].priorities, 1)

\* a returned combination that satisfies a priority with a related subject
\* and one without, from a call with a selection that resolved to no subject
C5_Witness ==
    /\ pc = "returned"
    /\ Len(Resolved) < Len(selectedSubjects)
    /\ \E k \in 1..Len(combinations) :
          /\ \E i \in Range(combinations[k].priorities) :
                priorities[i + 1].relatedSubjectCode # Undefined
          /\ \E i \in Range(combinations[k].priorities) :
                priorities[i + 1].relatedSubjectCode = Undefined

\* C6: for every combination the verifier accepted, its priorities list is
\* the strictly increasing list of exactly the indices of the priorities
\* whose "satisfied when" condition holds on it.
C6_ExactlySatisfied ==
    \A e \in 1..Len(verified) :
        verified[e].result =>
            /\ \A k, m \in 1..Len(verified[e].priorities) :
                  k < m => verified[e].priorities[k] < verified[e].priorities[m]
            /\ Range(verified[e].priorities) =
                  { i \in 0..(Len(priorities) - 1) :
                      SatisfiedWhen(verified[e].subjects, priorities[i + 1]) }

\* an accepted combination of two subjects with one priority satisfied and
\* one not
C6_Witness ==
    \E e \in 1..Len(verified) :
        /\ verified[e].result
        /\ Len(verified[e].subjects) = 2
        /\ Len(priorities) = 2
        /\ Len(verified[e].priorities) = 1

\* C7: the verifier is applied exactly once at each of the product of the
\* commission counts leaves and never to a partial combination, whatever
\* it returns.
C7_EveryLeafOnce ==
    pc = "searched" =>
        LET resolved == Resolved
        IN /\ Len(verified) = ProductOfCounts(resolved, 1)
           /\ \A e \in 1..Len(verified) : Len(verified[e].subjects) = Len(resolved)
           /\ \A f \in Assignments(resolved) :
                 Cardinality({ e \in 1..Len(verified) :
                                 Holds(verified[e].subjects, f, resolved) }) = 1

\* a search over four leaves, all of them rejected
C7_Witness ==
    /\ pc = "searched"
    /\ Len(Resolved) = 2
    /\ Len(verified) = 4
    /\ \A e \in 1..Len(verified) : ~verified[e].result

\* C8: an exclusive FREEDAY priority rejects the combination whenever there
\* is no matching free day: a weekday with a timeblock on it rejects, also
\* when another weekday is free; "any day" rejects exactly when no weekday
\* is free.
C8_FreedayRejects ==
    \A e \in 1..Len(verified) : \A i \in IndicesOfType("FREEDAY") :
        LET priority == priorities[i + 1]
            noFreeDay == \A day \in Weekdays : ~IsFreeDay(verified[e].subjects, day)
        IN IsExclusive(priority) =>
             /\ (priority.value \in Weekdays
                   /\ ~IsFreeDay(verified[e].subjects, priority.value))
                    => ~verified[e].result
             /\ priority.value = ANY =>
                    /\ noFreeDay => ~verified[e].result
                    /\ (Len(priorities) = 1 /\ ~verified[e].result) => noFreeDay

\* C9: when some pair of timeblocks of two different subjects in different
\* buildings has a travel time above priority.value, an exclusive TRAVEL
\* priority rejects the combination and a non-exclusive one leaves its index
\* out of the priorities list.
C9_TravelRejects ==
    \A e \in 1..Len(verified) : \A i \in IndicesOfType("TRAVEL") :
        ~SatisfiedWhen(verified[e].subjects, priorities[i + 1]) =>
            IF IsExclusive(priorities[i + 1])
            THEN ~verified[e].result
            ELSE verified[e].result => i \notin Range(verified[e].priorities)

\* priority.value is a professor of the catalog commission chosen for the
\* subject the priority names
CatalogProfessor(combinationSubjects, priority) ==
    \E j \in 1..Len(combinationSubjects) :
        /\ combinationSubjects[j].code = priority.relatedSubjectCode
        /\ \E s \in 1..Len(subjects) : \E c \in 1..Len(subjects[s].commissions) :
              /\ subjects[s].code = combinationSubjects[j].code
              /\ subjects[s].commissions[c].label = combinationSubjects[j].commissionName
              /\ HasOwnProperty(subjects[s].commissions[c], "professors")
              /\ priority.value \in Range(subjects[s].commissions[c].professors)

\* C10: a PROFESSOR priority whose value is a professor of the catalog
\* commission chosen for its subject is satisfied: its index is appended
\* and, if exclusive, the combination is not rejected.
C10_ProfessorSatisfied ==
    \A e \in 1..Len(verified) : \A i \in IndicesOfType("PROFESSOR") :
        CatalogProfessor(verified[e].subjects, priorities[i + 1]) =>
            /\ verified[e].result => i \in Range(verified[e].priorities)
            /\ Len(priorities) = 1 => verified[e].result

\* no priority of the input list is exclusive (the empty list included)
NoExclusive == \A i \in 1..Len(priorities) : ~IsExclusive(priorities[i])

\* what C11 says of a call that returned: one combination for every element
\* of the cross product, and with the empty priority list no index and weight 0
EveryAssignmentReturned ==
    LET resolved == Resolved
    IN /\ Len(combinations) = ProductOfCounts(resolved, 1)
       /\ \A f \in Assignments(resolved) :
             Cardinality({ k \in 1..Len(combinations) :
                             Holds(combinations[k].subjects, f, resolved) }) = 1
       /\ Len(priorities) = 0 =>
             \A k \in 1..Len(combinations) :
                 combinations[k].priorities = << >> /\ combinations[k].weight = 0

\* C11: when no priority of the list is exclusive (the empty list included)
\* schedulerAlgorithm returns: the call does not end in an error, and it
\* returns one combination for every element of the cross product of the
\* commissions of the resolved subjects; with the empty list each has an
\* empty priorities list and weight 0.
C11_NonExclusiveKeepsAll ==
    NoExclusive =>
        /\ pc # "threw"
        /\ pc = "returned" => EveryAssignmentReturned

\* positions of the selections whose code is the code of no catalog subject
Unresolved ==
    { k \in 1..Len(selectedSubjects) : ~HasCode(subjects, selectedSubjects[k].code) }

\* C12: a selection whose code matches no catalog Subject is dropped: once
\* the enumerator has run, every combination holds exactly one
\* CombinationSubject for each selection that resolves and none for one that
\* does not, and when no selection resolves the enumerator's result is the
\* result of enumerating zero subjects.
C12_UnresolvedDropped ==
    pc \in { "searched", "scored", "returned" } =>
        /\ \A c \in 1..Len(combinations) : \A k \in 1..Len(selectedSubjects) :
              Cardinality({ j \in 1..Len(combinations[c].subjects) :
                  combinations[c].subjects[j].code = selectedSubjects[k].code })
                  = IF k \in Unresolved THEN 0 ELSE 1
        /\ (pc = "searched" /\ Unresolved = 1..Len(selectedSubjects)) =>
              LET none == SearchCombinations(<< >>, priorities, NewCombination)
              IN combinations = none.combinations /\ verified = none.verified

\* a call with one selection that resolves and one that does not, which
\* returned two or more combinations
C12_Witness ==
    /\ pc = "returned"
    /\ Len(selectedSubjects) = 2
    /\ Cardinality(Unresolved) = 1
    /\ Len(combinations) >= 2

\* C13: with zero subjects selected the enumerator builds exactly one
\* terminal Combination, with an empty subjects list, and asks the verifier
\* about it: it is the one combination of the result if the verifier accepts
\* it (as it does when no priority is exclusive) and the result is empty if
\* the verifier rejects it.
C13_ZeroSubjects ==
    (pc \in { "searched", "scored", "returned" } /\ Len(selectedSubjects) = 0) =>
        /\ Len(verified) = 1
        /\ verified[1].subjects = << >>
        /\ IF verified[1].result
           THEN /\ Len(combinations) = 1
                /\ combinations[1].subjects = << >>
                /\ combinations[1].priorities = verified[1].priorities
           ELSE combinations = << >>
        /\ NoExclusive => verified[1].result

\* a call with zero selections and an exclusive priority that returned the
\* one combination without subjects
C13_Witness ==
    /\ pc = "returned"
    /\ Len(selectedSubjects) = 0
    /\ ~NoExclusive
    /\ Len(combinations) = 1
    /\ combinations[1].subjects = << >>

\* C14: scoring does not fail on a combination the verifier accepted: the
\* call never ends in a TypeError, because for every index in the priorities
\* list of an accepted combination whose priority has a relatedSubjectCode,
\* selectedSubjects holds an entry with that code.
C14_RelatedSubjectSelected ==
    /\ pc # "threw"
    /\ \A e \in 1..Len(verified) :
          verified[e].result =>
              \A k \in 1..Len(verified[e].priorities) :
                  LET priority == priorities[verified[e].priorities[k] + 1]
                  IN HasSubjectRelated(priority) =>
                         HasCode(selectedSubjects, priority.relatedSubjectCode)

TiersThenSummedTerm ==
    \A x, y \in 1..Len(combinations) :
        LET countX == Len(combinations[x].priorities)
            countY == Len(combinations[y].priorities)
        IN /\ countY > countX => combinations[y].weight > combinations[x].weight
           /\ countY = countX =>
                 (combinations[y].weight > combinations[x].weight
                    <=> SummedTerm(combinations[y].priorities, 1)
                          > SummedTerm(combinations[x].priorities, 1))

\* the summed term of the priorities list that holds every index but one
\* is below base, whichever index is left out
SummedTermBelowBase ==
    \A i \in 0..(Len(priorities) - 1) :
        SummedTerm(SelectSeq([k \in 1..Len(priorities) |-> k - 1],
                             LAMBDA index : index # i), 1)
            < Len(priorities) * Transformation(Len(priorities))
                * Transformation(Len(selectedSubjects))

SubjectsAndPriorities(list) ==
    [k \in 1..Len(list) |->
        [subjects |-> list[k].subjects, priorities |-> list[k].priorities]]

\* the combinations the verifier accepted, in the order the enumerator
\* returned them
AcceptedInOrder == SelectSeq(verified, LAMBDA entry : entry.result)

\* C19: scoring writes only the weight and sorting only reorders: the
\* scored list holds the combinations the enumerator returned with the
\* subjects and priorities the verifier left; under either strategy the
\* sorted list is a permutation of the scored list, weights included; and
\* the returned list is a permutation of what the enumerator returned.
C19_OnlyWeightOnlyOrder ==
    /\ pc = "scored" =>
          /\ SubjectsAndPriorities(combinations) = SubjectsAndPriorities(AcceptedInOrder)
          /\ \A sort \in { "sort", "quicksort" } :
                SameMultiset(SortCombinations(combinations, sort), combinations)
    /\ pc = "returned" =>
          SameMultiset(SubjectsAndPriorities(combinations),
                       SubjectsAndPriorities(AcceptedInOrder))

\* a call with the quicksort strategy that returned four combinations in
\* another order than the enumerator found them, with priorities satisfied
C19_Witness ==
    /\ pc = "returned"
    /\ sortArg = "quicksort"
    /\ Len(combinations) = 4
    /\ SubjectsAndPriorities(combinations) # SubjectsAndPriorities(AcceptedInOrder)
    /\ \E k \in 1..Len(combinations) : Len(combinations[k].priorities) > 0

\* the call of quicksort is the orchestrator's: the whole array, the weight
\* as key, current < pivot as predicate
OrchestratorCall ==
    /\ sorting.get = "weight"
    /\ sorting.condition = "less"
    /\ sorting.left = 0
    /\ sorting.right = Len(sorting.initial) - 1

\* C18: quicksort called as the orchestrator calls it returns the array in
\* non-increasing key order, a permutation of the array it was given
\* (empty, single, all-equal, sorted and reverse-sorted arrays included);
\* a call on a range of 0 or 1 elements never changes the array.
C18_QuicksortSorts ==
    /\ (sorting.pc = "returned" /\ OrchestratorCall) =>
          /\ Descending(Weights(sorting.array))
          /\ SameMultiset(sorting.array, sorting.initial)
    /\ (sorting.pc \in { "loop", "returned" } /\ sorting.right <= sorting.left) =>
          sorting.array = sorting.initial

\* a returned orchestrator call on an array of three or more elements given in
\* strictly increasing key order
C18_Witness ==
    /\ sorting.pc = "returned"
    /\ OrchestratorCall
    /\ Len(sorting.initial) >= 3
    /\ \A k \in 1..(Len(sorting.initial) - 1) :
          sorting.initial[k].weight < sorting.initial[k + 1].weight
    /\ sorting.array # sorting.initial

ListsUnchanged(combination) ==
    /\ enumeration'.subjectLists[combination.subjects]
          = enumeration.subjectLists[combination.subjects]
    /\ enumeration'.priorityLists[combination.priorities]
          = enumeration.priorityLists[combination.priorities]

\* the step changes nothing an activation that stays on the stack holds:
\* not the lists of its partial Combination, and its array of remaining
\* subjects only if the step is its own pop
BranchesIndependent ==
    \A i \in 1..Len(enumeration.stack) :
        i <= Len(enumeration'.stack) =>
            /\ ListsUnchanged(enumeration.stack[i].combination)
            /\ (i < Len(enumeration.stack)
                  \/ Len(enumeration'.stack) > Len(enumeration.stack)) =>
                   enumeration'.subjectArrays[enumeration.stack[i].subjects]
                     = enumeration.subjectArrays[enumeration.stack[i].subjects]

\* every terminal Combination holds one CombinationSubject per subject
\* passed to the enumerator, and no two terminal Combinations have a list
\* in common
TerminalsDisjoint(e) ==
    LET resolved == Resolved
    IN /\ \A a \in 1..Len(e.terminals) :
             LET list == e.subjectLists[e.terminals[a].subjects]
             IN /\ Len(list) = Len(resolved)
                /\ \A k \in 1..Len(resolved) :
                      Cardinality({ j \in 1..Len(list) :
                                      list[j].code = resolved[k].code }) = 1
       /\ \A a, b \in 1..Len(e.terminals) :
             a # b => /\ e.terminals[a].subjects # e.terminals[b].subjects
                      /\ e.terminals[a].priorities # e.terminals[b].priorities

\* C17: no step of the enumeration changes the partial Combination or the
\* remaining subjects of an activation further down the stack (the parent,
\* from which every sibling is copied and sliced), nor a terminal
\* Combination already built; every terminal Combination has exactly one
\* CombinationSubject per subject passed to the enumerator, and two
\* terminal Combinations never share a subjects or a priorities list.
C17_BranchesIndependent ==
    [][/\ BranchesIndependent
       /\ \A a \in 1..Len(enumeration.terminals) :
             ListsUnchanged(enumeration.terminals[a])
       /\ TerminalsDisjoint(enumeration')]_vars

\* a finished enumeration of two subjects with four terminal Combinations,
\* some of them rejected
C17_Witness ==
    /\ enumeration.pc = "done"
    /\ Len(Resolved) = 2
    /\ Len(enumeration.terminals) = 4
    /\ Len(enumeration.returned) \in 1..3

\* the run on arrays with identity returns the combinations the operator
\* SearchCombinations gives
EnumerationAgrees ==
    enumeration.pc = "done" =>
        [k \in 1..Len(enumeration.returned) |->
            CombinationAt(enumeration, enumeration.returned[k])]
          = SearchCombinations(Resolved, priorities, NewCombination).combinations

\* the iteration about to run takes a range with left < right off the
\* work-list
Partitions ==
    /\ sorting.pc = "loop"
    /\ Head(sorting.interval)[1] < Head(sorting.interval)[2]

\* an iteration that partitions gets an index inside the range and puts two
\* strictly shorter ranges at the end of the work-list; another iteration
\* only takes its range off
ShorterRanges ==
    LET iterLeft == Head(sorting.interval)[1]
        iterRight == Head(sorting.interval)[2]
        index == ValueOf(sorting'.partitionIndex)
        pushed == Len(sorting'.interval)
    IN IF Partitions
       THEN /\ IsDefined(sorting'.partitionIndex)
            /\ index \in iterLeft..iterRight
            /\ sorting'.interval =
                  Tail(sorting.interval)
                    \o << << iterLeft, index - 1 >>, << index + 1, iterRight >> >>
            /\ \A n \in { pushed - 1, pushed } :
                  sorting'.interval[n][2] - sorting'.interval[n][1]
                      < iterRight - iterLeft
       ELSE sorting.pc = "loop" => sorting'.interval = Tail(sorting.interval)

\* C21: quicksort terminates for every array and every initial range: each
\* partition of a range with left < right returns an index inside the
\* range, both ranges pushed on the work-list are strictly shorter than the
\* one taken off, and the work-list eventually becomes empty and the call
\* returns.
C21_QuicksortTerminates ==
    /\ [][ShorterRanges]_vars
    /\ <>(sorting.pc = "returned" /\ sorting.interval = << >>)

\* a returned orchestrator call on four or more elements whose last
\* iterations took ranges without partitioning them
C21_Witness ==
    /\ sorting.pc = "returned"
    /\ OrchestratorCall
    /\ Len(sorting.initial) >= 4
    /\ ~IsDefined(sorting.partitionIndex)
    /\ sorting.array # sorting.initial

\* what an iteration that partitions does to its range: the element that
\* was rightmost is at the index returned, and the elements whose key
\* satisfies the predicate against the pivot's key are all on one side of
\* it (left of it if goesLeft, right of it if not) and the others on the
\* other side
PartitionPlaces(goesLeft) ==
    LET iterLeft == Head(sorting.interval)[1]
        iterRight == Head(sorting.interval)[2]
        index == ValueOf(sorting'.partitionIndex)
        pivotKey == Get(sorting.get, sorting.array[iterRight + 1])
        Satisfies(k) == Condition(sorting.condition,
                                  Get(sorting.get, sorting'.array[k + 1]), pivotKey)
    IN Partitions =>
         /\ sorting'.array[index + 1] = sorting.array[iterRight + 1]
         /\ \A k \in iterLeft..(index - 1) : Satisfies(k) <=> goesLeft
         /\ \A k \in (index + 1)..iterRight : Satisfies(k) <=> ~goesLeft

\* C22 as stated: partition takes the rightmost element of the range as
\* pivot and leaves it at the index returned, every element whose key
\* satisfies the predicate left of it and every other element right of it.
C22_PredicateGoesLeft == [][PartitionPlaces(TRUE)]_vars

\* C22 amended: the predicate is a "goes right of pivot" test: every element
\* whose key satisfies the predicate is right of the index returned and
\* every other element of the range left of it; the pivot is the rightmost
\* element and ends at the index returned.
C22_PredicateGoesRight == [][PartitionPlaces(FALSE)]_vars

\* the first partition of an orchestrator call left a greater key left of
\* the pivot and a smaller key right of it
C22_Witness ==
    /\ OrchestratorCall
    /\ Len(sorting.interval) = 2
    /\ IsDefined(sorting.partitionIndex)
    /\ LET index == ValueOf(sorting.partitionIndex)
       IN /\ index > 0
          /\ index < Len(sorting.array) - 1
          /\ sorting.array[index].weight > sorting.array[index + 1].weight
          /\ sorting.array[index + 2].weight < sorting.array[index + 1].weight
          /\ sorting.array # sorting.initial

\* the position in the resolved subjects, n of them, of the j-th one taken:
\* from the front if first, from the back if not
TakenAt(first, j, n) == IF first THEN j ELSE n + 1 - j

\* every activation in its loop took the subject of its level and has made
\* at most one branch per commission of it; every terminal Combination has
\* the CombinationSubjects of the resolved subjects in the order taken; a
\* finished run has left one terminal Combination per choice of commissions
EnumeratesInOrder(first) ==
    LET n == Len(Resolved)
        SubjectsOf(t) == enumeration.subjectLists[enumeration.terminals[t].subjects]
    IN enumeration.pc \in { "run", "done" } =>
         /\ \A d \in 1..Len(enumeration.stack) :
               enumeration.stack[d].pc = "loop" =>
                 /\ d <= n
                 /\ ValueOf(enumeration.stack[d].nodeSubject)
                       = Resolved[TakenAt(first, d, n)]
                 /\ enumeration.stack[d].k
                       <= Len(Resolved[TakenAt(first, d, n)].commissions)
         /\ \A t \in 1..Len(enumeration.terminals) :
               /\ Len(SubjectsOf(t)) = n
               /\ \A j \in 1..n :
                     SubjectsOf(t)[j].code = Resolved[TakenAt(first, j, n)].code
         /\ enumeration.pc = "done" =>
               /\ Len(enumeration.terminals) = ProductOfCounts(Resolved, 1)
               /\ Cardinality({ SubjectsOf(t) : t \in 1..Len(enumeration.terminals) })
                     = ProductOfCounts(Resolved, 1)

\* C23 as stated: at each level the enumerator takes the first remaining
\* subject and branches once per commission of it, so the
\* CombinationSubjects of a terminal Combination are in the order of the
\* selected subjects.
C23_FirstSubjectFirst == EnumeratesInOrder(TRUE)

\* C23 amended: at each level the enumerator takes the last remaining
\* subject and branches once per commission of it, so the
\* CombinationSubjects of a terminal Combination are in the reverse of the
\* order of the selected subjects.
C23_LastSubjectFirst == EnumeratesInOrder(FALSE)

\* a finished run on two subjects of different codes, the second one with
\* two commissions
C23_Witness ==
    /\ enumeration.pc = "done"
    /\ Len(Resolved) = 2
    /\ Resolved[1].code # Resolved[2].code
    /\ Len(Resolved[2].commissions) = 2
    /\ Len(enumeration.terminals) >= 2
    /\ enumeration.subjectLists[enumeration.terminals[1].subjects][1].code
          = Resolved[2].code

\* at least one selected subject, every priority weight in 0..|priorities|
\* and every selection weight in 0..|selectedSubjects|
WeightsInRange ==
    /\ Len(selectedSubjects) >= 1
    /\ \A i \in 1..Len(priorities) : priorities[i].weight \in 0..Len(priorities)
    /\ \A i \in 1..Len(selectedSubjects) :
          selectedSubjects[i].weight \in 0..Len(selectedSubjects)

\* C24: with the identity transform, at least one selected subject, every
\* priority weight in 0..|priorities| and every selection weight in
\* 0..|selectedSubjects|, a combination that satisfies strictly more
\* priorities has the strictly greater weight, and base is
\* |priorities|^2 * |selectedSubjects|, more than the summed term of every
\* combination that does not satisfy all the priorities.
C24_BaseAboveSummedTerm ==
    (pc = "scored" /\ WeightsInRange) =>
        LET base == Len(priorities) * Len(priorities) * Len(selectedSubjects)
        IN /\ \A value \in 0..MaxPriorityWeight : Transformation(value) = value
           /\ WeightBase(priorities, selectedSubjects) = base
           /\ \A x \in 1..Len(combinations) :
                 /\ Len(combinations[x].priorities) < Len(priorities) =>
                       SummedTerm(combinations[x].priorities, 1) < base
                 /\ \A y \in 1..Len(combinations) :
                       Len(combinations[y].priorities) > Len(combinations[x].priorities)
                          => combinations[y].weight > combinations[x].weight

\* scored combinations of three priorities, one of the greatest weight and
\* related to a selection of the greatest weight: x satisfies it alone, y
\* satisfies the two others, x has the greater summed term and y the
\* greater weight
C24_Witness ==
    /\ pc = "scored"
    /\ WeightsInRange
    /\ Len(priorities) = 3
    /\ Len(selectedSubjects) = 2
    /\ \E x, y \in 1..Len(combinations) :
          /\ combinations[x].priorities = << 0 >>
          /\ combinations[y].priorities = << 1, 2 >>
          /\ priorities[1].weight = 3
          /\ priorities[1].relatedSubjectCode # Undefined
          /\ selectedSubjects[1].weight = 2
          /\ SummedTerm(combinations[x].priorities, 1) = 6
          /\ SummedTerm(combinations[y].priorities, 1) < 6
          /\ combinations[y].weight > combinations[x].weight

====
